---- MODULE Spec2Model ----
(***************************************************************************)
(* A model of proxy.py: the Deye/Solarman polling proxy.                   *)
(*                                                                         *)
(* The program runs on one asyncio event loop.  Tasks are scheduled        *)
(* cooperatively, so a task runs without interruption from one await to    *)
(* the next: every action below is one such run-to-the-next-await segment  *)
(* of the background worker, or one whole HTTP handler (the handlers never *)
(* suspend: the cache lock is free at every suspension point).             *)
(*                                                                         *)
(* Time is the event loop's clock, in whole seconds.                       *)
(***************************************************************************)
EXTENDS Integers, Sequences, FiniteSets, TLC

\* ------------------------------------------------------------------------
\* Environment.  proxy.py reads these from the process environment.  The
\* model checks the configuration below: the defaults of the source, but
\* for CB_OPEN_SECONDS=5 (the default is 30), which keeps a whole cooldown
\* and the probe after it within the model's clock.
\* ------------------------------------------------------------------------
REQUEST_TIMEOUT == 3
POLL_INTERVAL_S == 2
ROUND_DECIMALS == 2
CB_FAIL_LIMIT == 3
CB_OPEN_SECONDS == 5
\* merge_ranges
MAX_QTY == 120

\* ------------------------------------------------------------------------
\* Bounds of the model.
\* ------------------------------------------------------------------------
\* The clock stops here.
MaxTime == 13
\* The clock stops here where fairness is stated (FairSpec).
MaxTimeLive == 9
\* connect() has no deadline in the source; the model lets it take this long.
MaxConnectTime == 1
\* merge_ranges is applied to lists of up to this many specs.
MaxSpecs == 3
\* combine_words is applied to lists of up to this many words.
MaxWords == 2

\* ------------------------------------------------------------------------
\* Small helpers
\* ------------------------------------------------------------------------
Max(a, b) == IF a >= b THEN a ELSE b

RECURSIVE Pow(_, _)
Pow(b, n) == IF n = 0 THEN 1 ELSE b * Pow(b, n - 1)

\* x & 0xFFFF
Mask16(x) == x % 65536

\* bit k of x, for x >= 0
Bit(x, k) == (x \div Pow(2, k)) % 2

Get(f, key, default) == IF key \in DOMAIN f THEN f[key] ELSE default

\* ------------------------------------------------------------------------
\* Integers wider than TLC's 32 bits.  Python's integers are unbounded;
\* a decoded value v is held here as the pair [h, l] with v = h * 65536 + l and
\* 0 <= l < 65536 (h is negative for a negative v).
\* ------------------------------------------------------------------------
W(h, l) == [h |-> h, l |-> l]

WNorm(h, l) == W(h + (l \div 65536), l % 65536)

ToWide(n) == WNorm(0, n)

\* w * m + o
WMulAdd(w, m, o) == WNorm(w.h * m, w.l * m + o)

\* w / d rounded to the nearest integer, ties to even (d > 0)
WDivRound(w, d) ==
    LET qh == w.h \div d
        t == (w.h % d) * 65536 + w.l
        q == t \div d
        r == t % d
        up == (2 * r > d) \/ (2 * r = d /\ q % 2 = 1)
    IN  WNorm(qh, IF up THEN q + 1 ELSE q)

\* ------------------------------------------------------------------------
\* combine_words, apply_scale_offset, round
\* ------------------------------------------------------------------------
\* The fallback for three words or more (and for none): acc = (acc << 16) | w.
\* Such a value has more than 32 bits: it is held as its base-65536 digits,
\* most significant first and without leading zeros (0 is <<>>).  No
\* register map of the model has a spec of more than two words, so no such
\* value is scaled.
RECURSIVE FoldWords(_, _)
FoldWords(acc, words) ==
    IF words = <<>> THEN acc
    ELSE FoldWords(IF acc = <<>> /\ Mask16(Head(words)) = 0
                   THEN <<>> ELSE Append(acc, Mask16(Head(words))),
                   Tail(words))

\* combine_words that reads every byte order as ABCD.
combine_wordsNoCDAB(words, dtype, byte_order) ==
    IF Len(words) = 1 THEN
        LET val == Mask16(words[1])
        IN  IF dtype = "int16" /\ Bit(val, 15) = 1 THEN ToWide(val - 65536) ELSE ToWide(val)
    ELSE IF Len(words) = 2 THEN
        LET hi == Mask16(words[1])
            lo == Mask16(words[2])
        IN  IF dtype = "int32" /\ Bit(hi, 15) = 1 THEN W(hi - 65536, lo) ELSE W(hi, lo)
    ELSE FoldWords(<<>>, words)

\* combine_words that takes the sign of an int32 from bit 15 of the low word.
combine_wordsSignOfLow(words, dtype, byte_order) ==
    IF Len(words) = 1 THEN
        LET val == Mask16(words[1])
        IN  IF dtype = "int16" /\ Bit(val, 15) = 1 THEN ToWide(val - 65536) ELSE ToWide(val)
    ELSE IF Len(words) = 2 THEN
        LET w0 == Mask16(words[1])
            w1 == Mask16(words[2])
            hi == IF byte_order = "CDAB" THEN w1 ELSE w0
            lo == IF byte_order = "CDAB" THEN w0 ELSE w1
        IN  IF dtype = "int32" /\ Bit(lo, 15) = 1 THEN W(hi - 65536, lo) ELSE W(hi, lo)
    ELSE FoldWords(<<>>, words)

combine_words(words, dtype, byte_order) ==
    IF Len(words) = 1 THEN
        LET val == Mask16(words[1])
        IN  IF dtype = "int16" /\ Bit(val, 15) = 1 THEN ToWide(val - 65536) ELSE ToWide(val)
    ELSE IF Len(words) = 2 THEN
        LET w0 == Mask16(words[1])
            w1 == Mask16(words[2])
            hi == IF byte_order = "CDAB" THEN w1 ELSE w0
            lo == IF byte_order = "CDAB" THEN w0 ELSE w1
        IN  \* val = (hi << 16) | lo; bit 31 of val is bit 15 of hi
            IF dtype = "int32" /\ Bit(hi, 15) = 1 THEN W(hi - 65536, lo) ELSE W(hi, lo)
    ELSE FoldWords(<<>>, words)

\* apply_scale_offset that leaves the multiplier out.
apply_scale_offsetNoScale(raw, multiply, offset) == WMulAdd(raw, 1000, offset)

\* multiply and offset are held in thousandths (0.1 is 100); so is the result.
apply_scale_offset(raw, multiply, offset) == WMulAdd(raw, multiply, offset)

\* round(val, ROUND_DECIMALS) of a value in thousandths: the result counts units
\* of 10^-ROUND_DECIMALS (123.4 is 12340), ties to even as Python's round.
round_val(milli) == WDivRound(milli, Pow(10, 3 - ROUND_DECIMALS))

\* ------------------------------------------------------------------------
\* merge_ranges
\* ------------------------------------------------------------------------
\* sorted(specs, key=lambda s: s.address): a stable sort.
RECURSIVE InsertSorted(_, _)
InsertSorted(sorted, s) ==
    IF sorted = <<>> THEN <<s>>
    ELSE IF Head(sorted).address <= s.address
         THEN <<Head(sorted)>> \o InsertSorted(Tail(sorted), s)
         ELSE <<s>> \o sorted

RECURSIVE SortByAddress(_)
SortByAddress(specs) ==
    IF specs = <<>> THEN <<>>
    ELSE InsertSorted(SortByAddress(SubSeq(specs, 1, Len(specs) - 1)), specs[Len(specs)])

\* ExtendGroup with "end = nxt_end" for "end = max(end, nxt_end)".
RECURSIVE ExtendGroupLastEnd(_, _, _, _, _)
ExtendGroupLastEnd(ss, i, start, end, group) ==
    IF i > Len(ss) THEN [end |-> end, group |-> group, i |-> i]
    ELSE LET nxt == ss[i]
             nxt_end == nxt.address + nxt.count - 1
         IN  IF nxt.address <= end + 2 /\ (nxt_end - start + 1) <= MAX_QTY
             THEN ExtendGroupLastEnd(ss, i + 1, start, nxt_end, Append(group, nxt))
             ELSE [end |-> end, group |-> group, i |-> i]

\* ExtendGroup without the MAX_QTY test.
RECURSIVE ExtendGroupNoCeiling(_, _, _, _, _)
ExtendGroupNoCeiling(ss, i, start, end, group) ==
    IF i > Len(ss) THEN [end |-> end, group |-> group, i |-> i]
    ELSE LET nxt == ss[i]
             nxt_end == nxt.address + nxt.count - 1
         IN  IF nxt.address <= end + 2
             THEN ExtendGroupNoCeiling(ss, i + 1, start, Max(end, nxt_end), Append(group, nxt))
             ELSE [end |-> end, group |-> group, i |-> i]

\* The inner while loop: extend the group [start, end] from position i on.
\* Returns the group's end, its members and the position it stopped at.
RECURSIVE ExtendGroup(_, _, _, _, _)
ExtendGroup(ss, i, start, end, group) ==
    IF i > Len(ss) THEN [end |-> end, group |-> group, i |-> i]
    ELSE LET nxt == ss[i]
             nxt_end == nxt.address + nxt.count - 1
         IN  IF nxt.address <= end + 2 /\ (nxt_end - start + 1) <= MAX_QTY
             THEN ExtendGroup(ss, i + 1, start, Max(end, nxt_end), Append(group, nxt))
             ELSE [end |-> end, group |-> group, i |-> i]

\* The outer while loop.
RECURSIVE MergeFrom(_, _, _)
MergeFrom(ss, i, out) ==
    IF i > Len(ss) THEN out
    ELSE LET start == ss[i].address
             end == start + ss[i].count - 1
             g == ExtendGroup(ss, i + 1, start, end, <<ss[i]>>)
             qty == g.end - start + 1
         IN  MergeFrom(ss, g.i, Append(out, [start |-> start, qty |-> qty, group |-> g.group]))

merge_ranges(specs) == MergeFrom(SortByAddress(specs), 1, <<>>)

\* ------------------------------------------------------------------------
\* Inputs of merge_ranges: specs of one function
\* ------------------------------------------------------------------------
MergeAddresses == {0, 1, 3, 119}
MergeCounts == {1, 2, 118, 121}

\* A list of specs with these addresses and counts; a spec's id is its
\* position in the list.
SpecList(a, c) == [i \in DOMAIN a |-> [id |-> i, address |-> a[i], count |-> c[i]]]

\* ------------------------------------------------------------------------
\* Inputs of combine_words
\* ------------------------------------------------------------------------
CombineWords == {0, 1, 1234, 32767, 32768, 65535}
CombineDtypes == {"uint16", "int16", "uint32", "int32", "float32"}
CombineByteOrders == {"AB", "ABCD", "CDAB", "DCBA"}

\* ------------------------------------------------------------------------
\* The register map document and parse_yaml
\* ------------------------------------------------------------------------
\* A YAML scalar given for "address": int() accepts it or raises.
IntScalar(n) == [kind |-> "int", int |-> n]
TextScalar == [kind |-> "text", int |-> 0]

\* The end-to-end map of the specification: a uint16 holding register at 10
\* scaled by 0.1 and an int32 input register at 20-21, word order CDAB.
ItemField1 ==
    [id |-> "field1", address |-> IntScalar(10), type |-> "uint16", multiply |-> 100]
ItemField2 ==
    [id |-> "field2", address |-> IntScalar(20), count |-> 2, function |-> "INPUT",
     type |-> "int32", byte_order |-> "cdab"]

\* The documents the model starts from.  file is "missing" (open() raises),
\* "malformed" (yaml.safe_load raises, or the document is no mapping) or "ok".
Document(n) ==
    CASE n = 1 -> [file |-> "ok", defaults |-> [measurement |-> "deye"],
                   registers |-> <<ItemField1, ItemField2>>]
      [] n = 2 -> [file |-> "missing", defaults |-> <<>>, registers |-> <<>>]
      [] n = 3 -> [file |-> "malformed", defaults |-> <<>>, registers |-> <<>>]
      [] n = 4 -> [file |-> "ok", defaults |-> [count |-> 1],
                   registers |-> <<ItemField1, [address |-> IntScalar(20)]>>]
      [] n = 5 -> [file |-> "ok", defaults |-> [count |-> 1],
                   registers |-> <<[id |-> "field1"], ItemField2>>]
      [] n = 6 -> [file |-> "ok", defaults |-> [count |-> 1],
                   registers |-> <<[id |-> "field1", address |-> TextScalar]>>]

Documents == 1..6

\* {**defaults, **item}
Merged(defaults, item) ==
    [k \in DOMAIN defaults \cup DOMAIN item |->
        IF k \in DOMAIN item THEN item[k] ELSE defaults[k]]

Lower(str) == CASE str = "INPUT" -> "input" [] str = "HOLDING" -> "holding" [] OTHER -> str
Upper(str) == CASE str = "cdab" -> "CDAB" [] str = "abcd" -> "ABCD" [] str = "ab" -> "AB"
                [] OTHER -> str

\* One entry of "registers": the RegSpec, or the error the constructor call raises.
ItemSpec(merged) ==
    IF "id" \notin DOMAIN merged \/ "address" \notin DOMAIN merged
    THEN [ok |-> FALSE]
    ELSE IF merged["address"].kind # "int"
    THEN [ok |-> FALSE]
    ELSE [ok |-> TRUE,
          spec |-> [id          |-> merged["id"],
                    address     |-> merged["address"].int,
                    count       |-> Get(merged, "count", 1),
                    func        |-> Lower(Get(merged, "function", Get(merged, "func", "holding"))),
                    dtype       |-> Lower(Get(merged, "type", Get(merged, "dtype", "uint16"))),
                    byte_order  |-> Upper(Get(merged, "byte_order", "AB")),
                    multiply    |-> Get(merged, "multiply", Get(merged, "scale", 1000)),
                    offset      |-> Get(merged, "offset", 0),
                    measurement |-> Get(merged, "measurement", "deye"),
                    field_name  |-> Get(merged, "field", Get(merged, "name", merged["id"]))]]

RECURSIVE ParseItems(_, _, _)
ParseItems(defaults, items, acc) ==
    IF items = <<>> THEN [ok |-> TRUE, regs |-> acc]
    ELSE LET rs == ItemSpec(Merged(defaults, Head(items)))
         IN  IF rs.ok THEN ParseItems(defaults, Tail(items), Append(acc, rs.spec))
             ELSE [ok |-> FALSE, regs |-> <<>>]

\* parse_yaml: the list of RegSpecs, or ok = FALSE when it raises.
parse_yaml(doc) ==
    IF doc.file # "ok" THEN [ok |-> FALSE, regs |-> <<>>]
    ELSE ParseItems(doc.defaults, doc.registers, <<>>)

\* ------------------------------------------------------------------------
\* The device and the transport client (pysolarmanv5, external)
\* ------------------------------------------------------------------------
\* What the device holds changes between reads: a read answers from one of
\* these images of its registers.
Images == {1, 2}

DeviceWord(img, func, addr) ==
    IF img = 1 THEN
        CASE func = "holding" /\ addr = 10 -> 1234
          [] func = "input" /\ addr = 20 -> 1
          [] func = "input" /\ addr = 21 -> 65535
          [] OTHER -> 0
    ELSE 32768

\* The exceptions refresh_cache catches, and one it does not (any other
\* subclass of Exception the transport or the decoding may raise).
CaughtKinds == {"V5FrameError", "NoSocketAvailableError", "TimeoutError", "KeyError", "OSError"}
ErrorKinds == CaughtKinds \cup {"Exception"}

\* ------------------------------------------------------------------------
\* Planning and decoding in refresh_cache
\* ------------------------------------------------------------------------
RECURSIVE SelectFunc(_, _)
SelectFunc(specs, func) ==
    IF specs = <<>> THEN <<>>
    ELSE IF Head(specs).func = func
         THEN <<Head(specs)>> \o SelectFunc(Tail(specs), func)
         ELSE SelectFunc(Tail(specs), func)

TagPlans(func, ranges) ==
    [i \in 1..Len(ranges) |-> [func |-> func, start |-> ranges[i].start, qty |-> ranges[i].qty]]

\* plans, flattened to the order the reads are issued in: every range of
\* "holding", then every range of "input".
Plans(specs) ==
    LET holding == SelectFunc(specs, "holding")
        inputr == SelectFunc(specs, "input")
    IN  (IF holding # <<>> THEN TagPlans("holding", merge_ranges(holding)) ELSE <<>>)
        \o (IF inputr # <<>> THEN TagPlans("input", merge_ranges(inputr)) ELSE <<>>)

\* read_plan's loop body for one answer: addr2word[start + idx] = int(val) & 0xFFFF
StoreWords(addr2word, start, words) ==
    [a \in DOMAIN addr2word \cup {start + i - 1 : i \in 1..Len(words)} |->
        IF a \in {start + i - 1 : i \in 1..Len(words)}
        THEN Mask16(words[a - start + 1]) ELSE addr2word[a]]

\* m = new_cache.setdefault(measurement, {}); m[field] = val
RECURSIVE SetField(_, _, _, _)
SetField(c, meas, fld, val) ==
    IF c = <<>> THEN << [meas |-> meas, fields |-> [k \in {fld} |-> val]] >>
    ELSE IF Head(c).meas = meas
         THEN << [meas |-> meas,
                  fields |-> [k \in DOMAIN Head(c).fields \cup {fld} |->
                                 IF k = fld THEN val ELSE Head(c).fields[k]]] >> \o Tail(c)
         ELSE <<Head(c)>> \o SetField(Tail(c), meas, fld, val)

\* The decoding loop over STATE.regs: the new cache, or ok = FALSE on KeyError.
RECURSIVE Decode(_, _, _)
Decode(specs, all_w, acc) ==
    IF specs = <<>> THEN [ok |-> TRUE, cache |-> acc]
    ELSE LET spec == Head(specs)
             src == IF spec.func = "holding" THEN "holding" ELSE "input"
             addrs == {spec.address + off : off \in 0..(spec.count - 1)}
         IN  IF src \notin DOMAIN all_w THEN [ok |-> FALSE, cache |-> <<>>]
             ELSE IF ~(addrs \subseteq DOMAIN all_w[src]) THEN [ok |-> FALSE, cache |-> <<>>]
             ELSE LET words == [i \in 1..spec.count |-> all_w[src][spec.address + i - 1]]
                      raw == combine_words(words, spec.dtype, spec.byte_order)
                      val == round_val(apply_scale_offset(raw, spec.multiply, spec.offset))
                      fld == IF spec.field_name # "" THEN spec.field_name ELSE spec.id
                  IN  Decode(Tail(specs), all_w, SetField(acc, spec.measurement, fld, val))

\* ------------------------------------------------------------------------
\* State
\* ------------------------------------------------------------------------
VARIABLES
    app,                 \* the web application: "init", "serving", "stopped", "cleanup_raised"
    doc,                 \* the register map document at YAML_PATH
    pc,                  \* where the background task is
    now,                 \* the event loop's clock
    regs,                \* STATE.regs
    cache,               \* STATE.cache: <<[meas, fields]>> in insertion order
    cache_ts,            \* STATE.cache_ts
    cache_lock,          \* STATE.cache_lock: "free" or its holder
    sol,                 \* STATE.sol: "None", or the client: "created" (connect() has
                         \* not succeeded), "connected" or "closed" (disconnected)
    breaker_failures,    \* STATE.breaker_failures
    breaker_open_until,  \* STATE.breaker_open_until
    now_loop,            \* refresh_cache: the clock read on entry
    todo,                \* the planned reads not yet answered; the head is in flight
    addr2word,           \* read_plan: the words read so far
    all_words,           \* refresh_cache: func -> address -> word
    call_start,          \* when the transport call in flight was issued
    sleep_until,         \* when asyncio.sleep is due
    obs,                 \* what the latest HTTP handler answered, until the next step
    last_commit,         \* history: the <<snapshot, timestamp>> of the latest commit
    cycle_pre,           \* history: sol and the breaker when the latest attempted cycle began
    reads_done,          \* history: the reads answered in the latest attempted cycle
    tick_result,         \* history: how the latest tick ended
    tripped_at,          \* history: when breaker_failures reached CB_FAIL_LIMIT, or -1
    last_words,          \* history: all_words of the latest commit
    connect_calls        \* history: the calls of connect() on the client STATE.sol holds

VARIABLES mr_specs, mr_plans

VARIABLES cw_words, cw_dtype, cw_byte_order, cw_result

mergeVars == <<mr_specs, mr_plans>>
combineVars == <<cw_words, cw_dtype, cw_byte_order, cw_result>>
pureVars == <<mergeVars, combineVars>>

stateVars == <<regs, cache, cache_ts, cache_lock, sol, breaker_failures, breaker_open_until>>
taskVars == <<pc, now_loop, todo, addr2word, all_words, call_start, sleep_until>>
histVars == <<last_commit, cycle_pre, reads_done, tick_result, tripped_at, last_words,
              connect_calls>>
vars == <<app, doc, now, stateVars, taskVars, obs, histVars, pureVars>>

NoObs == [op |-> "none", payload |-> <<>>, cache_age_s |-> -1, cache_ts |-> 0,
          breaker_failures |-> 0, breaker_open_until |-> 0, regs_loaded |-> 0]

Snapshot(s, bf, bou) == [sol |-> s, breaker_failures |-> bf, breaker_open_until |-> bou]

\* The clock the loop starts at (time.monotonic() is positive).
InitMain ==
    /\ app = "init"
    /\ doc \in Documents
    /\ pc = "none"
    /\ now = 1
    /\ regs = <<>>
    /\ cache = <<>>
    /\ cache_ts = 0
    /\ cache_lock = "free"
    /\ sol = "None"
    /\ breaker_failures = 0
    /\ breaker_open_until = 0
    /\ now_loop = 0
    /\ todo = <<>>
    /\ addr2word = <<>>
    /\ all_words = <<>>
    /\ call_start = 0
    /\ sleep_until = 0
    /\ obs = NoObs
    /\ last_commit = <<<<>>, 0>>
    /\ cycle_pre = Snapshot("None", 0, 0)
    /\ reads_done = 0
    /\ tick_result = "none"
    /\ tripped_at = -1
    /\ last_words = <<>>
    /\ connect_calls = 0

\* No call of combine_words on its own has been made.
NoCombine ==
    /\ cw_words = <<>>
    /\ cw_dtype = ""
    /\ cw_byte_order = ""
    /\ cw_result = <<>>

Init == InitMain /\ mr_specs = <<>> /\ mr_plans = <<>> /\ NoCombine

\* The task is suspended in an await (or has not run yet, or has ended): other
\* tasks of the loop run only then.
Suspended == pc # "tick"

InFlight == pc \in {"initconnect", "connect", "read"}

\* ------------------------------------------------------------------------
\* refresh_cache: the ways a cycle ends.  Each states the next value of
\* cache, cache_ts, cache_lock, breaker_failures, breaker_open_until, of the
\* task's variables and of the history but cycle_pre.
\* ------------------------------------------------------------------------
\* Back in background_worker: await asyncio.sleep(POLL_INTERVAL_S)
ToSleep ==
    /\ pc' = "sleep"
    /\ sleep_until' = now + POLL_INTERVAL_S
    /\ now_loop' = 0
    /\ todo' = <<>>
    /\ addr2word' = <<>>
    /\ all_words' = <<>>
    /\ call_start' = 0

\* The breaker is open: return at once.
CycleSkipped ==
    /\ ToSleep
    /\ tick_result' = "skipped"
    /\ UNCHANGED <<cache, cache_ts, cache_lock, breaker_failures, breaker_open_until,
                   last_commit, tripped_at, last_words>>

\* CycleCommit without "STATE.breaker_failures = 0".
CycleCommitKeepsFailures(new_cache) ==
    /\ cache_lock = "free"
    /\ cache' = new_cache
    /\ cache_ts' = now
    /\ cache_lock' = "free"
    /\ last_commit' = <<new_cache, now>>
    /\ tick_result' = "ok"
    /\ tripped_at' = -1
    /\ UNCHANGED <<breaker_failures, breaker_open_until>>
    /\ ToSleep

\* CycleCommit that stamps the cache without replacing what it holds.
CycleCommitStampOnly(new_cache) ==
    /\ cache_lock = "free"
    /\ cache' = cache
    /\ cache_ts' = now
    /\ breaker_failures' = 0
    /\ cache_lock' = "free"
    /\ last_commit' = <<new_cache, now>>
    /\ tick_result' = "ok"
    /\ tripped_at' = -1
    /\ UNCHANGED breaker_open_until
    /\ ToSleep

\* async with STATE.cache_lock: cache, cache_ts, breaker_failures
CycleCommit(new_cache) ==
    /\ cache_lock = "free"
    /\ cache' = new_cache
    /\ cache_ts' = now
    /\ breaker_failures' = 0
    /\ cache_lock' = "free"
    /\ last_commit' = <<new_cache, now>>
    /\ tick_result' = "ok"
    /\ tripped_at' = -1
    /\ UNCHANGED breaker_open_until
    /\ ToSleep

\* CycleFail that stamps the cache on a failure too.
CycleFailStampsCache(kind, nl) ==
    /\ IF kind \in CaughtKinds
       THEN /\ breaker_failures' = breaker_failures + 1
            /\ breaker_open_until' =
                   IF breaker_failures + 1 >= CB_FAIL_LIMIT
                   THEN nl + CB_OPEN_SECONDS ELSE breaker_open_until
            /\ tripped_at' = IF breaker_failures + 1 = CB_FAIL_LIMIT THEN now ELSE tripped_at
            /\ tick_result' = "failed"
       ELSE /\ UNCHANGED <<breaker_failures, breaker_open_until, tripped_at>>
            /\ tick_result' = "uncaught"
    /\ cache_ts' = now
    /\ UNCHANGED <<cache, cache_lock, last_commit, last_words>>
    /\ ToSleep

\* CycleFail without background_worker's "except Exception": an exception
\* refresh_cache does not catch ends the task.
CycleFailEndsTask(kind, nl) ==
    /\ IF kind \in CaughtKinds
       THEN /\ breaker_failures' = breaker_failures + 1
            /\ breaker_open_until' =
                   IF breaker_failures + 1 >= CB_FAIL_LIMIT
                   THEN nl + CB_OPEN_SECONDS ELSE breaker_open_until
            /\ tripped_at' = IF breaker_failures + 1 = CB_FAIL_LIMIT THEN now ELSE tripped_at
            /\ tick_result' = "failed"
            /\ ToSleep
       ELSE /\ UNCHANGED <<breaker_failures, breaker_open_until, tripped_at>>
            /\ tick_result' = "uncaught"
            /\ pc' = "crashed"
            /\ UNCHANGED <<sleep_until, now_loop, todo, addr2word, all_words, call_start>>
    /\ UNCHANGED <<cache, cache_ts, cache_lock, last_commit, last_words>>

\* CycleFail that counts the failure and never opens the breaker.
CycleFailNeverOpens(kind, nl) ==
    /\ IF kind \in CaughtKinds
       THEN /\ breaker_failures' = breaker_failures + 1
            /\ breaker_open_until' = breaker_open_until
            /\ tripped_at' = IF breaker_failures + 1 = CB_FAIL_LIMIT THEN now ELSE tripped_at
            /\ tick_result' = "failed"
       ELSE /\ UNCHANGED <<breaker_failures, breaker_open_until, tripped_at>>
            /\ tick_result' = "uncaught"
    /\ UNCHANGED <<cache, cache_ts, cache_lock, last_commit, last_words>>
    /\ ToSleep

\* An exception of this kind leaves the try block; nl is now_loop.  The except
\* clause handles the kinds it names; any other passes to background_worker,
\* which logs it.
CycleFail(kind, nl) ==
    /\ IF kind \in CaughtKinds
       THEN /\ breaker_failures' = breaker_failures + 1
            /\ breaker_open_until' =
                   IF breaker_failures + 1 >= CB_FAIL_LIMIT
                   THEN nl + CB_OPEN_SECONDS ELSE breaker_open_until
            /\ tripped_at' = IF breaker_failures + 1 = CB_FAIL_LIMIT THEN now ELSE tripped_at
            /\ tick_result' = "failed"
       ELSE /\ UNCHANGED <<breaker_failures, breaker_open_until, tripped_at>>
            /\ tick_result' = "uncaught"
    /\ UNCHANGED <<cache, cache_ts, cache_lock, last_commit, last_words>>
    /\ ToSleep

\* Every planned read is answered: decode, then commit.
CycleDecode(all_w, nl) ==
    LET d == Decode(regs, all_w, <<>>)
    IN  IF d.ok THEN CycleCommit(d.cache) /\ last_words' = all_w
        ELSE CycleFail("KeyError", nl)

\* StartReads with the cache lock taken before the reads and held across them.
StartReadsHoldingLock(plans, nl) ==
    IF plans = <<>> THEN CycleDecode(<<>>, nl)
    ELSE /\ pc' = "read"
         /\ todo' = plans
         /\ addr2word' = <<>>
         /\ all_words' = <<>>
         /\ call_start' = now
         /\ now_loop' = nl
         /\ cache_lock' = "poller"
         /\ UNCHANGED <<sleep_until, cache, cache_ts, breaker_failures,
                        breaker_open_until, last_commit, tick_result, tripped_at,
                        last_words>>

\* Issue the first of these reads, or go on to decoding when there is none.
StartReads(plans, nl) ==
    IF plans = <<>> THEN CycleDecode(<<>>, nl)
    ELSE /\ pc' = "read"
         /\ todo' = plans
         /\ addr2word' = <<>>
         /\ all_words' = <<>>
         /\ call_start' = now
         /\ now_loop' = nl
         /\ UNCHANGED <<sleep_until, cache, cache_ts, cache_lock, breaker_failures,
                        breaker_open_until, last_commit, tick_result, tripped_at,
                        last_words>>

\* ------------------------------------------------------------------------
\* The web application and the background task
\* ------------------------------------------------------------------------
\* on_startup: create the task; the application then serves.
OnStartup ==
    /\ app = "init"
    /\ app' = "serving"
    /\ pc' = "load"
    /\ obs' = NoObs
    /\ UNCHANGED <<doc, now, stateVars, now_loop, todo, addr2word, all_words, call_start,
                   sleep_until, histVars, pureVars>>

\* background_worker up to its first await: parse_yaml, then the client is
\* constructed and connect() awaited.  An exception of parse_yaml ends the task.
BackgroundWorkerStart ==
    /\ pc = "load"
    /\ LET r == parse_yaml(Document(doc))
       IN  IF ~r.ok
           THEN /\ pc' = "crashed"
                /\ UNCHANGED <<regs, sol, call_start>>
           ELSE /\ regs' = r.regs
                /\ \E constructed \in BOOLEAN :
                      IF constructed
                      THEN sol' = "created" /\ pc' = "initconnect" /\ call_start' = now
                      ELSE sol' = sol /\ pc' = "tick" /\ call_start' = 0
    /\ connect_calls' = IF pc' = "initconnect" THEN 1 ELSE connect_calls
    /\ obs' = NoObs
    /\ UNCHANGED <<app, doc, now, cache, cache_ts, cache_lock, breaker_failures,
                   breaker_open_until, now_loop, todo, addr2word, all_words, sleep_until,
                   last_commit, cycle_pre, reads_done, tick_result, tripped_at,
                   last_words, pureVars>>

\* The initial connect() returns or raises; "except Exception" logs the error.
InitialConnectDone ==
    /\ pc = "initconnect"
    /\ \E outcome \in {"ok"} \cup ErrorKinds :
          sol' = IF outcome = "ok" THEN "connected" ELSE sol
    /\ pc' = "tick"
    /\ call_start' = 0
    /\ obs' = NoObs
    /\ UNCHANGED <<app, doc, now, regs, cache, cache_ts, cache_lock, breaker_failures,
                   breaker_open_until, now_loop, todo, addr2word, all_words, sleep_until,
                   histVars, pureVars>>

\* RefreshCacheBegin that calls connect() again on a client that is not
\* connected.
RefreshCacheBeginReconnects ==
    /\ pc = "tick"
    /\ obs' = NoObs
    /\ UNCHANGED <<app, doc, now, regs, pureVars>>
    /\ IF breaker_open_until > now
       THEN CycleSkipped /\ UNCHANGED <<sol, cycle_pre, reads_done, connect_calls>>
       ELSE /\ cycle_pre' = Snapshot(sol, breaker_failures, breaker_open_until)
            /\ reads_done' = 0
            /\ IF sol \in {"None", "created"}
               THEN \E outcome \in {"ok"} \cup ErrorKinds :
                       IF outcome = "ok"
                       THEN /\ sol' = "created"
                            /\ connect_calls' = connect_calls + 1
                            /\ pc' = "connect"
                            /\ todo' = Plans(regs)
                            /\ call_start' = now
                            /\ now_loop' = now
                            /\ UNCHANGED <<addr2word, all_words, sleep_until, cache, cache_ts,
                                           cache_lock, breaker_failures, breaker_open_until,
                                           last_commit, tick_result, tripped_at, last_words>>
                       ELSE sol' = sol /\ connect_calls' = connect_calls
                            /\ CycleFail(outcome, now)
               ELSE sol' = sol /\ connect_calls' = connect_calls
                    /\ StartReads(Plans(regs), now)

\* refresh_cache from its entry to its first await (or to its return).
RefreshCacheBegin ==
    /\ pc = "tick"
    /\ obs' = NoObs
    /\ UNCHANGED <<app, doc, now, regs, pureVars>>
    /\ IF breaker_open_until > now
       THEN CycleSkipped /\ UNCHANGED <<sol, cycle_pre, reads_done, connect_calls>>
       ELSE /\ cycle_pre' = Snapshot(sol, breaker_failures, breaker_open_until)
            /\ reads_done' = 0
            /\ IF sol = "None"
               THEN \E outcome \in {"ok"} \cup ErrorKinds :
                       IF outcome = "ok"
                       THEN /\ sol' = "created"
                            /\ connect_calls' = 1
                            /\ pc' = "connect"
                            /\ todo' = Plans(regs)
                            /\ call_start' = now
                            /\ now_loop' = now
                            /\ UNCHANGED <<addr2word, all_words, sleep_until, cache, cache_ts,
                                           cache_lock, breaker_failures, breaker_open_until,
                                           last_commit, tick_result, tripped_at, last_words>>
                       ELSE sol' = sol /\ connect_calls' = connect_calls
                            /\ CycleFail(outcome, now)
               ELSE sol' = sol /\ connect_calls' = connect_calls
                    /\ StartReads(Plans(regs), now)

\* The cycle's connect() returns or raises.
ConnectDone ==
    /\ pc = "connect"
    /\ obs' = NoObs
    /\ UNCHANGED <<app, doc, now, regs, cycle_pre, reads_done, connect_calls, pureVars>>
    /\ \E outcome \in {"ok"} \cup ErrorKinds :
          IF outcome = "ok"
          THEN sol' = "connected" /\ StartReads(todo, now_loop)
          ELSE sol' = sol /\ CycleFail(outcome, now_loop)

\* The answer to the read in flight: the registers of one image of the device.
Answer(plan, img, len) == [i \in 1..len |-> DeviceWord(img, plan.func, plan.start + i - 1)]

\* The read in flight is answered: store the words, then issue the next read
\* or decode and commit.
ReadAnswered(words) ==
    LET plan == Head(todo)
        rest == Tail(todo)
        a2w == StoreWords(addr2word, plan.start, words)
        all_w == [f \in DOMAIN all_words \cup {plan.func} |->
                     IF f = plan.func THEN a2w ELSE all_words[f]]
    IN  IF rest = <<>> THEN CycleDecode(all_w, now_loop)
        ELSE /\ pc' = "read"
             /\ todo' = rest
             /\ addr2word' = IF Head(rest).func = plan.func THEN a2w ELSE <<>>
             /\ all_words' = IF Head(rest).func = plan.func THEN all_words ELSE all_w
             /\ call_start' = now
             /\ UNCHANGED <<now_loop, sleep_until, cache, cache_ts, cache_lock,
                            breaker_failures, breaker_open_until, last_commit, tick_result,
                            tripped_at, last_words>>

\* The read in flight returns or raises; wait_for raises TimeoutError when
\* REQUEST_TIMEOUT has passed.
ReadDone ==
    /\ pc = "read"
    /\ obs' = NoObs
    /\ UNCHANGED <<app, doc, now, regs, sol, cycle_pre, connect_calls, pureVars>>
    /\ \/ /\ \E img \in Images, len \in {Head(todo).qty, Head(todo).qty - 1} :
                ReadAnswered(Answer(Head(todo), img, len))
          /\ reads_done' = reads_done + 1
       \/ /\ \E kind \in ErrorKinds \ {"TimeoutError"} : CycleFail(kind, now_loop)
          /\ UNCHANGED reads_done
       \/ /\ now = call_start + REQUEST_TIMEOUT
          /\ CycleFail("TimeoutError", now_loop)
          /\ UNCHANGED reads_done

\* asyncio.sleep returns: the loop runs the next tick.
WakeUp ==
    /\ pc = "sleep"
    /\ now = sleep_until
    /\ pc' = "tick"
    /\ sleep_until' = 0
    /\ obs' = NoObs
    /\ UNCHANGED <<app, doc, now, stateVars, now_loop, todo, addr2word, all_words,
                   call_start, histVars, pureVars>>

\* A second passes while the task waits.
TimePassesUntil(limit) ==
    /\ app = "serving"
    /\ now < limit
    /\ \/ pc = "read" /\ now < call_start + REQUEST_TIMEOUT
       \/ pc \in {"initconnect", "connect"} /\ now < call_start + MaxConnectTime
       \/ pc = "sleep" /\ now < sleep_until
       \/ pc = "crashed"
    /\ now' = now + 1
    /\ obs' = NoObs
    /\ UNCHANGED <<app, doc, stateVars, taskVars, histVars, pureVars>>

TimePasses == TimePassesUntil(MaxTime)

TimePassesLive == TimePassesUntil(MaxTimeLive)

\* ------------------------------------------------------------------------
\* HTTP handlers
\* ------------------------------------------------------------------------
\* obj = {"name": meas}; obj.update(fields)
Payload(c) ==
    [i \in 1..Len(c) |->
        [k \in {"name"} \cup DOMAIN c[i].fields |->
            IF k \in DOMAIN c[i].fields THEN c[i].fields[k] ELSE c[i].meas]]

handle_get ==
    /\ app = "serving"
    /\ Suspended
    /\ cache_lock = "free"
    /\ obs' = [NoObs EXCEPT !.op = "get", !.payload = Payload(cache)]
    /\ UNCHANGED <<app, doc, now, stateVars, taskVars, histVars, pureVars>>

handle_health ==
    /\ app = "serving"
    /\ Suspended
    /\ obs' = [op |-> "health", payload |-> <<>>,
               cache_age_s |-> IF cache_ts # 0 THEN now - cache_ts ELSE -1,
               cache_ts |-> cache_ts,
               breaker_failures |-> breaker_failures,
               breaker_open_until |-> breaker_open_until,
               regs_loaded |-> Len(regs)]
    /\ UNCHANGED <<app, doc, now, stateVars, taskVars, histVars, pureVars>>

\* ------------------------------------------------------------------------
\* Shutdown
\* ------------------------------------------------------------------------
\* on_cleanup: cancel the task and await it, then disconnect the client.  A task
\* that is in an await ends cancelled, and its frames with it; one that
\* parse_yaml ended re-raises its exception from "await task", which ends
\* on_cleanup.  disconnect() returns or raises; its exception is dropped.
on_cleanup ==
    /\ app = "serving"
    /\ Suspended
    /\ IF pc = "crashed"
       THEN app' = "cleanup_raised" /\ pc' = pc /\ sol' = sol
       ELSE /\ app' = "stopped"
            /\ pc' = "cancelled"
            /\ \E disconnected \in BOOLEAN :
                  sol' = IF sol # "None" /\ disconnected THEN "closed" ELSE sol
    /\ now_loop' = 0
    /\ todo' = <<>>
    /\ addr2word' = <<>>
    /\ all_words' = <<>>
    /\ call_start' = 0
    /\ sleep_until' = 0
    /\ obs' = NoObs
    /\ UNCHANGED <<doc, now, regs, cache, cache_ts, cache_lock, breaker_failures,
                   breaker_open_until, histVars, pureVars>>

Next ==
    \/ OnStartup
    \/ BackgroundWorkerStart
    \/ InitialConnectDone
    \/ RefreshCacheBegin
    \/ ConnectDone
    \/ ReadDone
    \/ WakeUp
    \/ TimePasses
    \/ handle_get
    \/ handle_health
    \/ on_cleanup

Spec == Init /\ [][Next]_vars

\* ------------------------------------------------------------------------
\* merge_ranges on its own: the inputs are drawn at the start
\* ------------------------------------------------------------------------
InitMerge ==
    /\ InitMain
    /\ doc = 1
    /\ \E n \in 1..MaxSpecs :
          \E a \in [1..n -> MergeAddresses], c \in [1..n -> MergeCounts] :
             mr_specs = SpecList(a, c)
    /\ mr_plans = <<>>
    /\ NoCombine

ApplyMerge ==
    /\ mr_plans = <<>>
    /\ mr_plans' = merge_ranges(mr_specs)
    /\ UNCHANGED <<mr_specs, app, doc, now, stateVars, taskVars, obs, histVars, combineVars>>

NextMerge == ApplyMerge

SpecMerge == InitMerge /\ [][NextMerge]_vars

\* ------------------------------------------------------------------------
\* combine_words on its own: the inputs are drawn at the start
\* ------------------------------------------------------------------------
InitCombine ==
    /\ InitMain
    /\ doc = 1
    /\ mr_specs = <<>>
    /\ mr_plans = <<>>
    /\ \E n \in 1..MaxWords : cw_words \in [1..n -> CombineWords]
    /\ cw_dtype \in CombineDtypes
    /\ cw_byte_order \in CombineByteOrders
    /\ cw_result = <<>>

ApplyCombine ==
    /\ cw_result = <<>>
    /\ cw_result' = <<combine_words(cw_words, cw_dtype, cw_byte_order)>>
    /\ UNCHANGED <<cw_words, cw_dtype, cw_byte_order, app, doc, now, stateVars, taskVars,
                   obs, histVars, mergeVars>>

NextCombine == ApplyCombine

SpecCombine == InitCombine /\ [][NextCombine]_vars

\* ------------------------------------------------------------------------
\* Fairness: the event loop runs a task that is ready, and the clock moves.
\* ------------------------------------------------------------------------
TaskStep ==
    BackgroundWorkerStart \/ InitialConnectDone \/ RefreshCacheBegin \/ ConnectDone
        \/ ReadDone \/ WakeUp

NextLive ==
    \/ OnStartup
    \/ BackgroundWorkerStart
    \/ InitialConnectDone
    \/ RefreshCacheBegin
    \/ ConnectDone
    \/ ReadDone
    \/ WakeUp
    \/ TimePassesLive
    \/ handle_get
    \/ handle_health
    \/ on_cleanup

FairSpec == Init /\ [][NextLive]_vars /\ WF_vars(TaskStep) /\ WF_vars(TimePassesLive)

\* ------------------------------------------------------------------------
\* Properties
\* ------------------------------------------------------------------------
InLoop == pc \in {"tick", "connect", "read", "sleep"}
CycleFailed == tick_result \in {"failed", "uncaught"}

\* C1: once breaker_failures has reached CB_FAIL_LIMIT, the breaker is open when
\* that failing cycle ends, and no transport call is issued before
\* CB_OPEN_SECONDS have passed since that cycle failed.
C1_NoCallUntilCooldownElapsed ==
    /\ (tripped_at = now /\ pc = "sleep" /\ ~(tick_result = "skipped"))
           => breaker_open_until > now
    /\ (tripped_at >= 0 /\ pc \in {"connect", "read"})
           => call_start >= tripped_at + CB_OPEN_SECONDS

\* C2: after a successful cycle breaker_failures is 0, whatever it was when
\* the cycle began.
C2_SuccessResetsFailures == tick_result = "ok" => breaker_failures = 0

\* C2 witness: a probe after a cooldown succeeded.
C2_Witness ==
    /\ tick_result = "ok"
    /\ pc = "sleep"
    /\ cycle_pre.breaker_failures >= CB_FAIL_LIMIT
    /\ breaker_failures = 0

\* C3 as claimed: in the sleep that follows it, a failed cycle has left all
\* of STATE but breaker_failures and breaker_open_until as it was when the
\* cycle began: cache and cache_ts are those of the latest commit, and sol is
\* what it was.
C3_FailedCycleChangesOnlyBreaker ==
    (CycleFailed /\ pc = "sleep") =>
        /\ <<cache, cache_ts>> = last_commit
        /\ regs = parse_yaml(Document(doc)).regs
        /\ cache_lock = "free"
        /\ sol = cycle_pre.sol

\* C3 as amended: in the sleep that follows it, a failed cycle has left cache
\* and cache_ts as they were when the cycle began (those of the latest commit:
\* no step of the cycle wrote them), and STATE.sol too unless the cycle found
\* it absent and constructed it.
C3_FailedCycleKeepsCache ==
    (CycleFailed /\ pc = "sleep") =>
        /\ <<cache, cache_ts>> = last_commit
        /\ regs = parse_yaml(Document(doc)).regs
        /\ cache_lock = "free"
        /\ (sol = cycle_pre.sol \/ cycle_pre.sol = "None")
        /\ breaker_failures \in {cycle_pre.breaker_failures, cycle_pre.breaker_failures + 1}
        /\ (breaker_open_until # cycle_pre.breaker_open_until
               => breaker_failures >= CB_FAIL_LIMIT)

\* C3 witness: a cycle failed after a read of it was answered, over a cache an
\* earlier cycle had filled.
C3_Witness ==
    /\ CycleFailed
    /\ pc = "sleep"
    /\ reads_done >= 1
    /\ cache # <<>>
    /\ cache_ts < now

\* C4: what a handler answers is the snapshot, or the timestamp, of the latest
\* commit (at first the empty snapshot with timestamp 0), and whenever a
\* handler may run STATE holds that snapshot with its own timestamp.
C4_ReadersSeeOneCommit ==
    /\ Suspended => <<cache, cache_ts>> = last_commit
    /\ obs.op = "get" => obs.payload = Payload(last_commit[1])
    /\ obs.op = "health" => obs.cache_ts = last_commit[2]

\* C4 witness: a query is answered from a committed snapshot while a later
\* cycle has one read answered and the next in flight.
C4_Witness ==
    /\ obs.op = "get"
    /\ obs.payload # <<>>
    /\ pc = "read"
    /\ reads_done = 1
    /\ cache_ts < now_loop

\* C5: the cache lock is free while a transport call is in flight, so both
\* handlers can run then; and a handler's step leaves the task and the
\* transport client as they are.
C5_QueriesNeverTouchTransport ==
    /\ [](InFlight => cache_lock = "free")
    /\ []((InFlight /\ app = "serving") => (ENABLED handle_get /\ ENABLED handle_health))
    /\ [][obs'.op # "none" => UNCHANGED <<taskVars, stateVars, now>>]_vars

\* C5 witness: a query was answered while a read had been pending for a
\* while, from a cache older than the poll interval.
C5_Witness ==
    /\ obs.op = "get"
    /\ pc = "read"
    /\ now > call_start
    /\ cache_ts # 0
    /\ now - cache_ts > POLL_INTERVAL_S

\* C6: a cycle that ended in an error, of whatever kind, has incremented
\* breaker_failures by one, and the breaker is open if that reached the limit.
C6_EveryErrorCounts ==
    CycleFailed =>
        /\ breaker_failures = cycle_pre.breaker_failures + 1
        /\ (breaker_failures >= CB_FAIL_LIMIT => breaker_open_until > 0)

\* C7: once in the loop the task leaves it only by being cancelled; a tick ends
\* in the sleep and the sleep ends in the next tick; and under fairness every
\* tick that began reaches its sleep, and every sleep due within the clock's
\* range reaches the next tick, unless the task is cancelled.
C7_LoopNeverEnds ==
    /\ [][InLoop => (InLoop' \/ (pc' = "cancelled" /\ app' = "stopped"))]_vars
    /\ [][(pc \in {"tick", "connect", "read"} /\ pc' \notin {"connect", "read", "cancelled"})
              => pc' = "sleep"]_vars
    /\ [][(pc = "sleep" /\ pc' # "sleep") => pc' \in {"tick", "cancelled"}]_vars
    /\ []((pc = "sleep" /\ app = "serving")
             => (ENABLED WakeUp \/ ENABLED TimePassesLive \/ now = MaxTimeLive))
    /\ (pc \in {"tick", "connect", "read"}) ~> (pc \in {"sleep", "cancelled"})
    /\ (pc = "sleep" /\ sleep_until <= MaxTimeLive) ~> (pc \in {"tick", "cancelled"})

\* C7 witness: the task sleeps after a tick the open breaker skipped, which
\* followed the sleeps after CB_FAIL_LIMIT ticks that failed.
C7_Witness ==
    /\ pc = "sleep"
    /\ tick_result = "skipped"
    /\ breaker_failures >= CB_FAIL_LIMIT
    /\ now > CB_FAIL_LIMIT * POLL_INTERVAL_S + 1
    /\ app = "serving"

\* C8: the application does not serve while parse_yaml has failed.
C8_NoServingWithoutRegisterMap == ~(app = "serving" /\ pc = "crashed")

\* C9: a failed connect has incremented breaker_failures: the initial one of
\* background_worker (the first tick has not run yet), and one of a cycle.
C9_ConnectFailureCounts ==
    /\ (pc = "tick" /\ tick_result = "none" /\ sol = "created") => breaker_failures = 1
    /\ (CycleFailed /\ cycle_pre.sol = "None" /\ sol = "created")
           => breaker_failures = cycle_pre.breaker_failures + 1

\* C10: every spec is a member of exactly one plan, which covers every address
\* of it; a plan starts at the least address of its members and its quantity
\* reaches their greatest end.
MemberPlans(id) ==
    {p \in 1..Len(mr_plans) : \E k \in 1..Len(mr_plans[p].group) : mr_plans[p].group[k].id = id}
MemberPlaces(id) ==
    {<<p, k>> \in (1..Len(mr_plans)) \X (1..MaxSpecs + 1) :
        k <= Len(mr_plans[p].group) /\ mr_plans[p].group[k].id = id}
SpecEnd(s) == s.address + s.count - 1
PlanMembers(p) == {mr_plans[p].group[k] : k \in 1..Len(mr_plans[p].group)}

C10_PlansCoverEverySpec ==
    mr_plans # <<>> =>
        /\ \A i \in 1..Len(mr_specs) :
              /\ Cardinality(MemberPlaces(i)) = 1
              /\ \A p \in MemberPlans(i) :
                    /\ mr_specs[i] \in PlanMembers(p)
                    /\ mr_plans[p].start <= mr_specs[i].address
                    /\ SpecEnd(mr_specs[i]) <= mr_plans[p].start + mr_plans[p].qty - 1
        /\ \A p \in 1..Len(mr_plans) :
              /\ PlanMembers(p) # {}
              /\ \A s \in PlanMembers(p) : mr_plans[p].start <= s.address
              /\ \E s \in PlanMembers(p) : mr_plans[p].start = s.address
              /\ \A s \in PlanMembers(p) : SpecEnd(s) <= mr_plans[p].start + mr_plans[p].qty - 1
              /\ \E s \in PlanMembers(p) : SpecEnd(s) = mr_plans[p].start + mr_plans[p].qty - 1

\* C10 witness: two plans, one of them with a member that ends before the
\* member ahead of it does.
C10_Witness ==
    /\ Len(mr_plans) = 2
    /\ \E p \in 1..Len(mr_plans) :
          /\ Len(mr_plans[p].group) >= 2
          /\ SpecEnd(mr_plans[p].group[2]) < SpecEnd(mr_plans[p].group[1])

\* C11: the address intervals of any two distinct plans of merge_ranges are
\* disjoint.
PlanEnd(p) == mr_plans[p].start + mr_plans[p].qty - 1

C11_PlansDisjoint ==
    \A p, q \in 1..Len(mr_plans) :
        p < q => (PlanEnd(p) < mr_plans[q].start \/ PlanEnd(q) < mr_plans[p].start)

\* C12: a plan's quantity is at most MAX_QTY, unless a member of its own has a
\* count above MAX_QTY; the plan then starts at that member and its quantity
\* is that member's count.
C12_QuantityWithinCeiling ==
    \A p \in 1..Len(mr_plans) :
        \/ mr_plans[p].qty <= MAX_QTY
        \/ \E s \in PlanMembers(p) :
              /\ s.count > MAX_QTY
              /\ s.address = mr_plans[p].start
              /\ mr_plans[p].qty = s.count

\* C12 witness: a plan wider than MAX_QTY that holds the spec forcing its width
\* and a spec merged into it, followed by a plan that the ceiling kept apart
\* from it.
C12_Witness ==
    \E p, q \in 1..Len(mr_plans) :
        /\ mr_plans[p].qty > MAX_QTY
        /\ Len(mr_plans[p].group) >= 2
        /\ q = p + 1
        /\ mr_plans[q].start <= PlanEnd(p) + 2
        /\ mr_plans[q].qty <= MAX_QTY

\* C18: merge_ranges returns the plans of the specified greedy algorithm: over
\* the specs stably sorted by address, the next spec joins the running group
\* [start, end] iff next.address <= end + 2 and
\* max(end, nextEnd) - start + 1 <= 120.
RECURSIVE GreedyExtend(_, _, _, _, _)
GreedyExtend(ss, i, start, end, group) ==
    IF i > Len(ss) THEN [end |-> end, group |-> group, i |-> i]
    ELSE LET nextEnd == ss[i].address + ss[i].count - 1
         IN  IF ss[i].address <= end + 2 /\ Max(end, nextEnd) - start + 1 <= 120
             THEN GreedyExtend(ss, i + 1, start, Max(end, nextEnd), Append(group, ss[i]))
             ELSE [end |-> end, group |-> group, i |-> i]

RECURSIVE GreedyFrom(_, _, _)
GreedyFrom(ss, i, out) ==
    IF i > Len(ss) THEN out
    ELSE LET start == ss[i].address
             g == GreedyExtend(ss, i + 1, start, SpecEnd(ss[i]), <<ss[i]>>)
         IN  GreedyFrom(ss, g.i,
                        Append(out, [start |-> start, qty |-> g.end - start + 1,
                                     group |-> g.group]))

GreedyPlans(specs) == GreedyFrom(SortByAddress(specs), 1, <<>>)

C18_PlansAreGreedy == mr_plans # <<>> => mr_plans = GreedyPlans(mr_specs)

\* C13 as claimed: combine_words([0x0000, 0x8000], "int32", "ABCD") is
\* -2147483648, which is -32768 * 65536 + 0.
C13_Call ==
    /\ cw_words = <<0, 32768>>
    /\ cw_dtype = "int32"
    /\ cw_byte_order = "ABCD"
    /\ cw_result # <<>>

C13_SignBitFromLowWord == C13_Call => cw_result[1] = W(-32768, 0)

\* C13 as amended: combine_words([0x0000, 0x8000], "int32", "ABCD") is 32768:
\* ABCD makes words[0] the high word, so the combined value is 0x00008000 and
\* its bit 31 is clear; it is [0x8000, 0x0000] that gives -2147483648.
C13_HighWordFirst ==
    /\ C13_Call => cw_result[1] = W(0, 32768)
    /\ (cw_words = <<32768, 0>> /\ cw_dtype = "int32" /\ cw_byte_order = "ABCD"
           /\ cw_result # <<>>) => cw_result[1] = W(-32768, 0)

\* C13 witness: that call has returned.
C13_Witness == C13_Call /\ cw_result[1].h >= 0

\* C14: for two words, high is w1 and low is w0 under CDAB, and high is w0 and
\* low is w1 under every other byte order; the result is high * 2^16 + low,
\* less 2^32 exactly when the dtype is int32 and that value is 2^31 or more;
\* for every other dtype it lies in 0 .. 2^32 - 1.
C14_High == IF cw_byte_order = "CDAB" THEN cw_words[2] ELSE cw_words[1]
C14_Low == IF cw_byte_order = "CDAB" THEN cw_words[1] ELSE cw_words[2]

C14_WordOrderAndSign ==
    (Len(cw_words) = 2 /\ cw_result # <<>>) =>
        /\ cw_result[1].l = C14_Low
        /\ cw_result[1].h =
               IF cw_dtype = "int32" /\ C14_High >= 32768
               THEN C14_High - 65536 ELSE C14_High
        /\ cw_dtype # "int32" => cw_result[1].h \in 0..65535

\* C14 witness: an int32 under CDAB whose sign comes from words[1], the words
\* being different.
C14_Witness ==
    /\ cw_result # <<>>
    /\ cw_words = <<1, 65535>>
    /\ cw_dtype = "int32"
    /\ cw_byte_order = "CDAB"
    /\ cw_result[1] = W(-1, 1)

\* C15: with the end-to-end register map, a cycle whose holding read answered
\* [1234] for address 10 and whose input read answered [0x0001, 0xFFFF] for
\* addresses 20-21 made those two reads and no other, and committed
\* {deye: {field1: 123.4, field2: -65535}} with breaker_failures = 0.  Values
\* count hundredths: 123.4 is 12340, and -65535 is -6553500, which is
\* -100 * 65536 + 100.
C15_Answers ==
    /\ DOMAIN last_words = {"holding", "input"}
    /\ DOMAIN last_words["holding"] = {10}
    /\ last_words["holding"][10] = 1234
    /\ DOMAIN last_words["input"] = {20, 21}
    /\ last_words["input"][20] = 1
    /\ last_words["input"][21] = 65535

C15_Cycle == doc = 1 /\ pc = "sleep" /\ tick_result = "ok" /\ C15_Answers

C15_EndToEnd ==
    C15_Cycle =>
        /\ Plans(regs) = << [func |-> "holding", start |-> 10, qty |-> 1],
                            [func |-> "input", start |-> 20, qty |-> 2] >>
        /\ reads_done = 2
        /\ Len(cache) = 1
        /\ cache[1].meas = "deye"
        /\ DOMAIN cache[1].fields = {"field1", "field2"}
        /\ cache[1].fields["field1"] = W(0, 12340)
        /\ cache[1].fields["field2"] = W(-100, 100)
        /\ breaker_failures = 0
        /\ <<cache, cache_ts>> = last_commit

\* C15 witness: such a cycle has committed, after a cycle that failed.
C15_Witness == C15_Cycle /\ cycle_pre.breaker_failures > 0 /\ cache_ts = now

\* C16 as claimed: between cycles, breaker_failures >= CB_FAIL_LIMIT implies
\* now < breaker_open_until.
C16_ClosedOrOpen ==
    (pc = "sleep" /\ breaker_failures >= CB_FAIL_LIMIT) => now < breaker_open_until

\* C16 as amended: between cycles, breaker_failures >= CB_FAIL_LIMIT implies
\* that a failing cycle has set breaker_open_until, to a time that is at most
\* CB_OPEN_SECONDS ahead; that time may have passed (the breaker then waits
\* for its probe).
C16_OpenUntilSet ==
    (pc = "sleep" /\ breaker_failures >= CB_FAIL_LIMIT) =>
        /\ breaker_open_until > CB_OPEN_SECONDS
        /\ breaker_open_until <= now + CB_OPEN_SECONDS

\* C16 witness: the cooldown has passed and the probe has not run yet.
C16_Witness ==
    /\ pc = "sleep"
    /\ breaker_failures >= CB_FAIL_LIMIT
    /\ tick_result = "skipped"
    /\ now >= breaker_open_until
    /\ now < sleep_until

\* C17: on_cleanup does not raise, whatever the task was doing; when it has
\* returned the task is cancelled and the cache is that of the latest commit.
C17_CleanupNeverRaises ==
    /\ app # "cleanup_raised"
    /\ app = "stopped" => (pc = "cancelled" /\ <<cache, cache_ts>> = last_commit)

\* C19: a tick is skipped only while now < breaker_open_until, so the first
\* tick at or after breaker_open_until attempts a cycle; a probe (a cycle
\* attempted with breaker_failures >= CB_FAIL_LIMIT) that fails leaves the
\* breaker open, with a breaker_open_until later than the one before; one
\* that succeeds leaves breaker_failures = 0.
C19_Probe == pc = "sleep" /\ cycle_pre.breaker_failures >= CB_FAIL_LIMIT

C19_ProbeReopensOrCloses ==
    /\ (pc = "sleep" /\ tick_result = "skipped")
           => breaker_open_until > sleep_until - POLL_INTERVAL_S
    /\ (C19_Probe /\ CycleFailed)
           => /\ breaker_open_until > cycle_pre.breaker_open_until
              /\ breaker_open_until > now
    /\ (C19_Probe /\ tick_result = "ok") => breaker_failures = 0

====
